---- MODULE Spec2Model ----
(***************************************************************************)
(* Model of server.js: the WebSocket signaling server that groups          *)
(* connections into two-party rooms keyed by a room code, relays the       *)
(* WebRTC negotiation messages between the two members of a room and       *)
(* tears rooms down when a member leaves or disconnects.                   *)
(*                                                                         *)
(* Node runs every handler to completion, so each handler is one step.     *)
(***************************************************************************)
EXTENDS Integers, Sequences, FiniteSets, TLC

(* ------------------------------ bounds -------------------------------- *)

\* Number of connections that are ever accepted.
NConns == 3

\* Number of distinct values Math.random() is taken to produce.
NCodes == 2

Conns == 1..NConns

(* ------------------------------ values -------------------------------- *)

\* JavaScript null, for the string-valued fields (roomCode, role, ...).
Null == "null"

\* JavaScript null, for a field that holds a connection (room.peer).
NoWs == 0

\* Math.random().toString(36).substring(2, 8): lower-case base-36 digits.
RandomPool == <<"k7q2xd", "m04zp9", "b3t8wa", "h61ycr">>

RandomStrings == {RandomPool[i] : i \in 1..NCodes}

\* String.prototype.toUpperCase on the strings of the model.
ToUpperCase(s) ==
    CASE s = "k7q2xd" -> "K7Q2XD"
      [] s = "m04zp9" -> "M04ZP9"
      [] s = "b3t8wa" -> "B3T8WA"
      [] s = "h61ycr" -> "H61YCR"
      [] OTHER -> s

\* generateRoomCode(), as a function of the string Math.random() yields.
generateRoomCode(r) == ToUpperCase(r)

\* Every code generateRoomCode can return.
Codes == {generateRoomCode(r) : r \in RandomStrings}

\* The roomCode values a client puts in a join-room message: the codes as
\* the server hands them out, and the same codes typed in lower case.
JoinCodes == Codes \cup RandomStrings

RelayTypes == {"offer", "answer", "ice-candidate"}

Payloads == {"sdp"}

(* ----------------------------- messages ------------------------------- *)

\* An outbound or relayed message; the fields a message lacks are Null.
Msg(type, roomCode, role, message, senderRole, payload) ==
    [type |-> type, roomCode |-> roomCode, role |-> role,
     message |-> message, senderRole |-> senderRole, payload |-> payload]

RoomCreated(roomCode) == Msg("room-created", roomCode, "host", Null, Null, Null)

ErrorMsg(message) == Msg("error", Null, Null, message, Null, Null)

RoomJoined(roomCode) == Msg("room-joined", roomCode, "peer", Null, Null, Null)

PeerJoined == Msg("peer-joined", Null, "host", Null, Null, Null)

PeerLeft(role) == Msg("peer-left", Null, role, Null, Null, Null)

HostLeft == Msg("host-left", Null, Null, "Host has left the room", Null, Null)

\* An effect of a handler, in the order the handler produces them: a send
\* to a connection, or the deletion of a room from the registry
\* (to = NoWs, msg.type = "rooms.delete").
Send(to, msg) == [to |-> to, msg |-> msg]

Deleted(roomCode) ==
    [to |-> NoWs, msg |-> Msg("rooms.delete", roomCode, Null, Null, Null, Null)]

\* The text a client sends: json = FALSE is text JSON.parse rejects.
Inbound(json, type, roomCode, payload) ==
    [json |-> json, type |-> type, roomCode |-> roomCode, payload |-> payload]

InboundData ==
    {Inbound(TRUE, "create-room", Null, Null)}
    \cup {Inbound(TRUE, "join-room", code, Null) : code \in JoinCodes}
    \cup {Inbound(TRUE, t, Null, p) : t \in RelayTypes, p \in Payloads}
    \cup {Inbound(TRUE, "leave-room", Null, Null)}
    \cup {Inbound(TRUE, "ping", Null, Null)}
    \cup {Inbound(FALSE, Null, Null, Null)}

(* ------------------------------- state -------------------------------- *)

VARIABLES
    rooms,  \* the registry: roomCode -> [host, peer, users]
    ws,     \* per connection: [roomCode, role, readyState]
    last,   \* the event handled by the last step
    log     \* what the last step's handler sent and deleted, in order

vars == <<rooms, ws, last, log>>

\* The part of the state the handlers read and write.
State(r, w) == [rooms |-> r, ws |-> w]

\* What a handler leaves behind: the state and the effects it produced.
Result(r, w, l) == [rooms |-> r, ws |-> w, log |-> l]

\* target.readyState === WebSocket.OPEN
IsOpen(st, c) == st.ws[c].readyState = "OPEN"

\* rooms.set(roomCode, room)
MapSet(r, roomCode, room) ==
    [k \in DOMAIN r \cup {roomCode} |-> IF k = roomCode THEN room ELSE r[k]]

\* rooms.delete(roomCode)
MapDelete(r, roomCode) == [k \in DOMAIN r \ {roomCode} |-> r[k]]

Event(ev, c, data) == [ev |-> ev, c |-> c, data |-> data]

NoData == Inbound(FALSE, Null, Null, Null)

\* new Map()
EmptyMap == [k \in {} |-> NoWs]

Init ==
    /\ rooms = EmptyMap
    /\ ws = [c \in Conns |-> [roomCode |-> Null, role |-> Null, readyState |-> "NONE"]]
    /\ last = Event("listen", NoWs, NoData)
    /\ log = << >>

(* ------------------------------ handlers ------------------------------ *)

\* handleCreateRoom(ws), with roomCode the code the do-while loop ends on.
handleCreateRoom(st, c, roomCode) ==
    Result(MapSet(st.rooms, roomCode, [host |-> c, peer |-> NoWs, users |-> {c}]),
           [st.ws EXCEPT ![c].roomCode = roomCode, ![c].role = "host"],
           <<Send(c, RoomCreated(roomCode))>>)

\* handleJoinRoom without the "Room is full" check: a second join-room
\* replaces the peer.
handleJoinRoomReplacesPeer(st, c, roomCode) ==
    IF roomCode \notin DOMAIN st.rooms
    THEN Result(st.rooms, st.ws, <<Send(c, ErrorMsg("Room not found"))>>)
    ELSE LET room == st.rooms[roomCode] IN
         Result(MapSet(st.rooms, roomCode,
                       [room EXCEPT !.peer = c, !.users = room.users \cup {c}]),
                [st.ws EXCEPT ![c].roomCode = roomCode, ![c].role = "peer"],
                <<Send(c, RoomJoined(roomCode))>>
                \o (IF room.host # NoWs /\ IsOpen(st, room.host)
                    THEN <<Send(room.host, PeerJoined)>>
                    ELSE << >>))

\* handleJoinRoom that marks the requester as a peer of the code before it
\* looks the room up, so a failed join leaves the affiliation behind.
handleJoinRoomMarksFirst(st, c, roomCode) ==
    LET marked == [st.ws EXCEPT ![c].roomCode = roomCode, ![c].role = "peer"] IN
    IF roomCode \notin DOMAIN st.rooms
    THEN Result(st.rooms, marked, <<Send(c, ErrorMsg("Room not found"))>>)
    ELSE LET room == st.rooms[roomCode] IN
         IF room.peer # NoWs
         THEN Result(st.rooms, st.ws, <<Send(c, ErrorMsg("Room is full"))>>)
         ELSE Result(
                MapSet(st.rooms, roomCode,
                       [room EXCEPT !.peer = c, !.users = room.users \cup {c}]),
                marked,
                <<Send(c, RoomJoined(roomCode))>>
                \o (IF room.host # NoWs /\ IsOpen(st, room.host)
                    THEN <<Send(room.host, PeerJoined)>>
                    ELSE << >>))

\* handleJoinRoom that sends peer-joined without looking at the host's
\* readyState.
handleJoinRoomNoLivenessCheck(st, c, roomCode) ==
    IF roomCode \notin DOMAIN st.rooms
    THEN Result(st.rooms, st.ws, <<Send(c, ErrorMsg("Room not found"))>>)
    ELSE LET room == st.rooms[roomCode] IN
         IF room.peer # NoWs
         THEN Result(st.rooms, st.ws, <<Send(c, ErrorMsg("Room is full"))>>)
         ELSE Result(
                MapSet(st.rooms, roomCode,
                       [room EXCEPT !.peer = c, !.users = room.users \cup {c}]),
                [st.ws EXCEPT ![c].roomCode = roomCode, ![c].role = "peer"],
                <<Send(c, RoomJoined(roomCode)), Send(room.host, PeerJoined)>>)

\* handleJoinRoom(ws, roomCode)
handleJoinRoom(st, c, roomCode) ==
    IF roomCode \notin DOMAIN st.rooms
    THEN Result(st.rooms, st.ws, <<Send(c, ErrorMsg("Room not found"))>>)
    ELSE LET room == st.rooms[roomCode] IN
         IF room.peer # NoWs
         THEN Result(st.rooms, st.ws, <<Send(c, ErrorMsg("Room is full"))>>)
         ELSE Result(
                MapSet(st.rooms, roomCode,
                       [room EXCEPT !.peer = c, !.users = room.users \cup {c}]),
                [st.ws EXCEPT ![c].roomCode = roomCode, ![c].role = "peer"],
                <<Send(c, RoomJoined(roomCode))>>
                \o (IF room.host # NoWs /\ IsOpen(st, room.host)
                    THEN <<Send(room.host, PeerJoined)>>
                    ELSE << >>))

\* forwardToPeer(ws, message)
forwardToPeer(st, c, message) ==
    IF st.ws[c].roomCode \notin DOMAIN st.rooms
    THEN Result(st.rooms, st.ws, << >>)
    ELSE LET room   == st.rooms[st.ws[c].roomCode]
             target == IF c = room.host THEN room.peer ELSE room.host
         IN  IF target # NoWs /\ IsOpen(st, target)
             THEN Result(st.rooms, st.ws,
                         <<Send(target, Msg(message.type, Null, Null, Null,
                                            st.ws[c].role, message.payload))>>)
             ELSE Result(st.rooms, st.ws, << >>)

\* handleLeaveRoom(ws)
handleLeaveRoom(st, c) ==
    IF st.ws[c].roomCode = Null
    THEN Result(st.rooms, st.ws, << >>)
    ELSE IF st.ws[c].roomCode \notin DOMAIN st.rooms
    THEN Result(st.rooms, st.ws, << >>)
    ELSE LET roomCode  == st.ws[c].roomCode
             room      == st.rooms[roomCode]
             users     == room.users \ {c}
             otherPeer == IF c = room.host THEN room.peer ELSE room.host
             notify    == IF otherPeer # NoWs /\ IsOpen(st, otherPeer)
                          THEN <<Send(otherPeer, PeerLeft(st.ws[otherPeer].role))>>
                          ELSE << >>
             cleared   == [st.ws EXCEPT ![c].roomCode = Null, ![c].role = Null]
         IN  IF users = {}
             THEN Result(MapDelete(st.rooms, roomCode), cleared,
                         notify \o <<Deleted(roomCode)>>)
             ELSE IF c = room.host
             THEN Result(MapDelete(st.rooms, roomCode), cleared,
                         notify
                         \o (IF room.peer # NoWs /\ IsOpen(st, room.peer)
                             THEN <<Send(room.peer, HostLeft)>>
                             ELSE << >>)
                         \o <<Deleted(roomCode)>>)
             ELSE IF c = room.peer
             THEN Result(MapSet(st.rooms, roomCode,
                                [room EXCEPT !.users = users, !.peer = NoWs]),
                         cleared, notify)
             ELSE Result(MapSet(st.rooms, roomCode, [room EXCEPT !.users = users]),
                         cleared, notify)

\* The switch with its default branch falling into the leave-room case.
dispatchDefaultLeaves(st, c, message) ==
    CASE message.type = "join-room" -> handleJoinRoom(st, c, message.roomCode)
      [] message.type \in RelayTypes -> forwardToPeer(st, c, message)
      [] OTHER -> handleLeaveRoom(st, c)

\* The body of ws.on('message'), after JSON.parse succeeded, for the message
\* types that do not draw a random code.
dispatch(st, c, message) ==
    CASE message.type = "join-room" -> handleJoinRoom(st, c, message.roomCode)
      [] message.type \in RelayTypes -> forwardToPeer(st, c, message)
      [] message.type = "leave-room" -> handleLeaveRoom(st, c)
      [] OTHER -> Result(st.rooms, st.ws, << >>)

(* ------------------------------- steps -------------------------------- *)

Apply(res, ev) ==
    /\ rooms' = res.rooms
    /\ ws' = res.ws
    /\ log' = res.log
    /\ last' = ev

\* wss.on('connection'): the next connection is accepted.
OnConnection(c) ==
    /\ ws[c].readyState = "NONE"
    /\ \A d \in Conns : d < c => ws[d].readyState # "NONE"
    /\ Apply(Result(rooms,
                    [ws EXCEPT ![c] = [roomCode |-> Null, role |-> Null,
                                       readyState |-> "OPEN"]],
                    << >>),
             Event("connection", c, NoData))

\* ws.on('message') for a create-room message whose handler takes the first
\* generated code without looking it up in the registry.
OnCreateRoomNoRetry(c) ==
    /\ ws[c].readyState = "OPEN"
    /\ \E r \in RandomStrings :
          Apply(handleCreateRoom(State(rooms, ws), c, generateRoomCode(r)),
                Event("message", c, Inbound(TRUE, "create-room", Null, Null)))

\* ws.on('message') for a create-room message.
OnCreateRoom(c) ==
    /\ ws[c].readyState = "OPEN"
    /\ \E r \in RandomStrings :
          /\ generateRoomCode(r) \notin DOMAIN rooms
          /\ Apply(handleCreateRoom(State(rooms, ws), c, generateRoomCode(r)),
                   Event("message", c, Inbound(TRUE, "create-room", Null, Null)))

\* ws.on('message') for every other text a client can send.
OnMessage(c) ==
    /\ ws[c].readyState = "OPEN"
    /\ \E data \in InboundData :
          /\ data.type # "create-room"
          /\ Apply(IF data.json
                   THEN dispatch(State(rooms, ws), c, data)
                   ELSE Result(rooms, ws, << >>),
                   Event("message", c, data))

\* The socket of a connection stops being OPEN (a close frame arrived or the
\* transport failed); its 'close' event has not been emitted yet.
SocketClosing(c) ==
    /\ ws[c].readyState = "OPEN"
    /\ Apply(Result(rooms, [ws EXCEPT ![c].readyState = "CLOSING"], << >>),
             Event("closing", c, NoData))

\* ws.on('close') that only logs the disconnection.
OnCloseLogsOnly(c) ==
    /\ ws[c].readyState \in {"OPEN", "CLOSING"}
    /\ Apply(Result(rooms, [ws EXCEPT ![c].readyState = "CLOSED"], << >>),
             Event("close", c, NoData))

\* ws.on('close'): readyState is CLOSED when the event is emitted.
OnClose(c) ==
    /\ ws[c].readyState \in {"OPEN", "CLOSING"}
    /\ Apply(handleLeaveRoom(State(rooms, [ws EXCEPT ![c].readyState = "CLOSED"]), c),
             Event("close", c, NoData))

Next ==
    \E c \in Conns :
        \/ OnConnection(c)
        \/ OnCreateRoom(c)
        \/ OnMessage(c)
        \/ SocketClosing(c)
        \/ OnClose(c)

Spec == Init /\ [][Next]_vars

(* ------------------------- reading the last step ---------------------- *)

\* The event e is handleLeaveRoom running for connection c: a leave-room
\* message from c, or the close of c.
IsLeave(e, c) ==
    /\ e.c = c
    /\ \/ e.ev = "close"
       \/ e.ev = "message" /\ e.data.json /\ e.data.type = "leave-room"

\* The event e is a join-room message from c for roomCode.
IsJoin(e, c, roomCode) ==
    /\ e.c = c
    /\ e.ev = "message" /\ e.data.json
    /\ e.data.type = "join-room" /\ e.data.roomCode = roomCode

\* The event e is an offer, answer or ice-candidate message from c.
IsRelay(e, c) ==
    /\ e.c = c
    /\ e.ev = "message" /\ e.data.json
    /\ e.data.type \in RelayTypes

\* The positions of the effects l at which a message of the type is sent to c.
SendsTo(l, c, type) == {i \in 1..Len(l) : l[i].to = c /\ l[i].msg.type = type}

\* The positions of the effects l at which a message of the type is sent.
SendsOf(l, type) == {i \in 1..Len(l) : l[i].to # NoWs /\ l[i].msg.type = type}

\* The positions of the effects l at which the room is deleted.
Deletions(l, roomCode) == {i \in 1..Len(l) : l[i] = Deleted(roomCode)}

\* The rooms of the registry r that connection c is the host or the peer of.
RoomsOf(r, c) == {k \in DOMAIN r : r[k].host = c \/ r[k].peer = c}

(* ------------------------------- claims ------------------------------- *)

\* C1: whenever a leave-room or a close is handled for a connection that is
\* the host of a room whose peer is another connection that is open, the room
\* is gone from the registry afterwards and the peer was sent exactly one
\* host-left, before the room was deleted.
C1_HostDepartureTearsDown ==
    [][\A c \in Conns, k \in Codes :
         (/\ IsLeave(last', c)
          /\ k \in DOMAIN rooms
          /\ rooms[k].host = c
          /\ rooms[k].peer \notin {NoWs, c}
          /\ ws[rooms[k].peer].readyState = "OPEN")
         => /\ k \notin DOMAIN rooms'
            /\ Cardinality(SendsTo(log', rooms[k].peer, "host-left")) = 1
            /\ \A i \in SendsTo(log', rooms[k].peer, "host-left") :
                 \E j \in Deletions(log', k) : i < j]_vars

\* C2: whenever a leave-room or a close is handled for a connection that is
\* the peer of a room and not its host, the room is still in the registry
\* afterwards with peer null, the host, if open, was sent exactly one
\* peer-left, and a join-room for that code from any other open connection
\* then succeeds.
C2_PeerDepartureKeepsRoom ==
    [][\A c \in Conns, k \in Codes :
         (/\ IsLeave(last', c)
          /\ k \in DOMAIN rooms
          /\ rooms[k].peer = c
          /\ rooms[k].host # c)
         => /\ k \in DOMAIN rooms'
            /\ rooms'[k].peer = NoWs
            /\ ws[rooms[k].host].readyState = "OPEN"
                 => Cardinality(SendsTo(log', rooms[k].host, "peer-left")) = 1
            /\ \A d \in Conns \ {c} :
                 ws'[d].readyState = "OPEN"
                 => handleJoinRoom(State(rooms', ws'), d, k).log[1]
                      = Send(d, RoomJoined(k))]_vars

\* C3: every connection is the host or the peer of at most one room of the
\* registry.
C3_AtMostOneRoomPerConnection ==
    \A c \in Conns : Cardinality(RoomsOf(rooms, c)) <= 1

\* C4: for every room code in the registry, at most one open connection has
\* that roomCode with role host, and at most one has it with role peer.
C4_OneHostOnePeerPerCode ==
    \A k \in DOMAIN rooms : \A role \in {"host", "peer"} :
        Cardinality({c \in Conns : /\ ws[c].readyState = "OPEN"
                                   /\ ws[c].roomCode = k
                                   /\ ws[c].role = role}) <= 1

\* C5: a join-room for a code whose room already has a peer sends the
\* requester the error "Room is full", sends nothing else, and leaves the
\* registry (every room's host, peer and users) and every connection's
\* roomCode and role as they were.
C5_JoinFullRoomRejected ==
    [][\A c \in Conns, k \in JoinCodes :
         (/\ IsJoin(last', c, k)
          /\ k \in DOMAIN rooms
          /\ rooms[k].peer # NoWs)
         => /\ log' = <<Send(c, ErrorMsg("Room is full"))>>
            /\ rooms' = rooms
            /\ ws' = ws]_vars

\* A third connection was just refused a room that has a host and a peer.
C5_Witness ==
    \E c \in Conns, k \in DOMAIN rooms :
        /\ IsJoin(last, c, k)
        /\ rooms[k].peer \notin {NoWs, c}
        /\ rooms[k].host \notin {c, rooms[k].peer}
        /\ log = <<Send(c, ErrorMsg("Room is full"))>>

\* C6: a join-room for a code that has no room in the registry sends the
\* requester the error "Room not found", sends nothing else, and leaves the
\* registry and every connection's roomCode and role as they were.
C6_JoinMissingRoomRejected ==
    [][\A c \in Conns, k \in JoinCodes :
         (/\ IsJoin(last', c, k)
          /\ k \notin DOMAIN rooms)
         => /\ log' = <<Send(c, ErrorMsg("Room not found"))>>
            /\ rooms' = rooms
            /\ ws' = ws]_vars

\* A connection was just refused a code that has no room, while another room
\* exists in the registry.
C6_Witness ==
    \E c \in Conns, k \in Codes :
        /\ IsJoin(last, c, k)
        /\ k \notin DOMAIN rooms
        /\ DOMAIN rooms # {}
        /\ log = <<Send(c, ErrorMsg("Room not found"))>>

\* C7: after a leave-room or a close has been handled for a connection, that
\* connection's roomCode and role are both null.
C7_LeaveClearsAffiliation ==
    \A c \in Conns :
        IsLeave(last, c) => ws[c].roomCode = Null /\ ws[c].role = Null

\* C8: an offer, answer or ice-candidate from a connection whose roomCode is
\* a room of the registry is sent to the room's peer with senderRole host
\* when the sender is the room's host, and to the room's host with senderRole
\* peer when the sender is the room's peer (the target being open); the
\* message keeps its type and payload, and the registry and the connections
\* stay as they were.
C8_RelayToOtherMember ==
    [][\A c \in Conns :
         (/\ IsRelay(last', c)
          /\ ws[c].roomCode \in DOMAIN rooms)
         => LET room == rooms[ws[c].roomCode]
                fwd(role) == Msg(last'.data.type, Null, Null, Null, role,
                                 last'.data.payload)
            IN  /\ (c = room.host /\ room.peer # NoWs
                                  /\ ws[room.peer].readyState = "OPEN")
                     => log' = <<Send(room.peer, fwd("host"))>>
                /\ (c = room.peer /\ ws[room.host].readyState = "OPEN")
                     => log' = <<Send(room.host, fwd("peer"))>>
                /\ rooms' = rooms
                /\ ws' = ws]_vars

\* C9: a join-room for a code whose room has no peer makes the requester the
\* room's peer, sets the requester's roomCode to the code and its role to
\* peer, and sends exactly room-joined {roomCode, role: peer} to the requester
\* followed by peer-joined {role: host} to the room's host when the host is
\* open, and room-joined alone when it is not.
C9_JoinSucceeds ==
    [][\A c \in Conns, k \in JoinCodes :
         (/\ IsJoin(last', c, k)
          /\ k \in DOMAIN rooms
          /\ rooms[k].peer = NoWs)
         => /\ k \in DOMAIN rooms'
            /\ rooms'[k].peer = c
            /\ ws'[c].roomCode = k
            /\ ws'[c].role = "peer"
            /\ log' = <<Send(c, RoomJoined(k))>>
                       \o (IF ws[rooms[k].host].readyState = "OPEN"
                           THEN <<Send(rooms[k].host, PeerJoined)>>
                           ELSE << >>)]_vars

\* A connection has just joined a room whose host is another connection that
\* is no longer open: room-joined is all that was sent.
C9_Witness ==
    \E c \in Conns, k \in DOMAIN rooms :
        /\ IsJoin(last, c, k)
        /\ rooms[k].peer = c
        /\ rooms[k].host # c
        /\ ws[rooms[k].host].readyState # "OPEN"
        /\ log = <<Send(c, RoomJoined(k))>>

\* C10: every peer-left that is sent to another connection than the one that
\* leaves goes to a connection whose role is not peer and that is the host of
\* a room which is still in the registry after the step, with its peer
\* cleared by the leave that caused the notification.
C10_PeerLeftOnlyToHost ==
    \A i \in SendsOf(log, "peer-left") :
        log[i].to # last.c =>
        /\ ws[log[i].to].role # "peer"
        /\ log[i].msg.role # "peer"
        /\ \E k \in DOMAIN rooms :
              /\ rooms[k].host = log[i].to
              /\ rooms[k].peer = NoWs
              /\ Deletions(log, k) = {}

\* The event e is a create-room message from c.
IsCreate(e, c) ==
    /\ e.c = c
    /\ e.ev = "message" /\ e.data.json
    /\ e.data.type = "create-room"

\* C11: every create-room adds a room under a code that was not a key of the
\* registry, with the requester as host and no peer, leaves every room that
\* was in the registry as it was, and sends the requester exactly
\* room-created with that code and role host.
C11_CreateUsesFreshCode ==
    [][\A c \in Conns :
         IsCreate(last', c)
         => \E k \in Codes \ DOMAIN rooms :
              /\ DOMAIN rooms' = DOMAIN rooms \cup {k}
              /\ rooms'[k] = [host |-> c, peer |-> NoWs, users |-> {c}]
              /\ \A j \in DOMAIN rooms : rooms'[j] = rooms[j]
              /\ log' = <<Send(c, RoomCreated(k))>>]_vars

\* A room was just created while a room of another host, with a peer, is in
\* the registry.
C11_Witness ==
    \E c \in Conns, k \in DOMAIN rooms, j \in DOMAIN rooms :
        /\ IsCreate(last, c)
        /\ log = <<Send(c, RoomCreated(k))>>
        /\ j # k
        /\ rooms[j].host # c
        /\ rooms[j].peer \notin {NoWs, c}

\* C12: a join-room, from a connection other than the room's host, whose
\* roomCode differs only in letter case from the code of a room that has no
\* peer has the effects of a join-room with that code.
C12_JoinIgnoresCase ==
    [][\A c \in Conns, k \in JoinCodes :
         (/\ IsJoin(last', c, k)
          /\ k # ToUpperCase(k)
          /\ ToUpperCase(k) \in DOMAIN rooms
          /\ rooms[ToUpperCase(k)].peer = NoWs
          /\ rooms[ToUpperCase(k)].host # c)
         => LET res == handleJoinRoom(State(rooms, ws), c, ToUpperCase(k))
            IN  /\ rooms' = res.rooms
                /\ ws' = res.ws
                /\ log' = res.log]_vars

\* The members of room other than connection c.
OtherMembers(room, c) == {room.host, room.peer} \ {NoWs, c}

\* C13: an offer, answer or ice-candidate from a connection that has no room
\* in the registry, or whose room has no other member, or whose room's other
\* members are not open, sends nothing to any connection and leaves the
\* registry and the connections as they were.
C13_RelayDroppedSilently ==
    [][\A c \in Conns :
         (/\ IsRelay(last', c)
          /\ \/ ws[c].roomCode \notin DOMAIN rooms
             \/ \A t \in OtherMembers(rooms[ws[c].roomCode], c) :
                    ws[t].readyState # "OPEN")
         => /\ log' = << >>
            /\ rooms' = rooms
            /\ ws' = ws]_vars

\* The effects l without the messages sent to connection c.
ToOthers(l, c) == SelectSeq(l, LAMBDA e : e.to # c)

\* C14: the close of a connection leaves the registry, every connection's
\* roomCode and role, and the messages sent to the other connections exactly
\* as a leave-room message from that connection would, from the same state.
C14_CloseIsLeave ==
    [][\A c \in Conns :
         (last'.ev = "close" /\ last'.c = c)
         => LET res == dispatch(State(rooms, ws), c,
                                Inbound(TRUE, "leave-room", Null, Null))
            IN  /\ rooms' = res.rooms
                /\ \A d \in Conns : /\ ws'[d].roomCode = res.ws[d].roomCode
                                     /\ ws'[d].role = res.ws[d].role
                /\ ToOthers(log', c) = ToOthers(res.log, c)]_vars

\* A connection that was a room's host has just closed, and the room's peer,
\* another connection, was notified.
C14_Witness ==
    /\ last.ev = "close"
    /\ \E d \in Conns \ {last.c} : SendsTo(log, d, "host-left") # {}

\* The message types the switch has a case for.
KnownTypes == {"create-room", "join-room", "leave-room"} \cup RelayTypes

\* C15: a message that JSON.parse rejects, or whose type the switch has no
\* case for, sends nothing and leaves the registry and every connection
\* (roomCode, role and readyState, the sender's included) as they were.
C15_BadMessageIgnored ==
    [][\A c \in Conns :
         (/\ last'.ev = "message" /\ last'.c = c
          /\ (~last'.data.json \/ last'.data.type \notin KnownTypes))
         => /\ log' = << >>
            /\ rooms' = rooms
            /\ ws' = ws]_vars

\* A host whose room has a peer has just sent a message of an unknown type.
C15_Witness ==
    \E k \in DOMAIN rooms :
        /\ last.ev = "message" /\ last.data.json
        /\ last.data.type \notin KnownTypes
        /\ rooms[k].host = last.c
        /\ ws[last.c].roomCode = k
        /\ rooms[k].peer \notin {NoWs, last.c}

\* C16: every room of the registry has a non-empty users set, and when a
\* connection closes that is the host of a room which has no peer and no
\* other user, the room is gone from the registry afterwards.
C16_NoEmptyRoom ==
    [][/\ \A k \in DOMAIN rooms' : rooms'[k].users # {}
       /\ \A c \in Conns, k \in Codes :
            (/\ last'.ev = "close" /\ last'.c = c
             /\ k \in DOMAIN rooms
             /\ rooms[k].host = c
             /\ rooms[k].peer = NoWs
             /\ rooms[k].users = {c})
            => k \notin DOMAIN rooms']_vars

\* C17 (from the connection to the registry): a connection whose roomCode is
\* not null refers to a room of the registry of which it is the host, with
\* role host, or the peer, with role peer.
C17_AffiliationMatchesRegistry ==
    \A c \in Conns :
        ws[c].roomCode # Null
        => /\ ws[c].roomCode \in DOMAIN rooms
           /\ LET room == rooms[ws[c].roomCode]
              IN  \/ room.host = c /\ ws[c].role = "host"
                  \/ room.peer = c /\ ws[c].role = "peer"

\* C18: whenever an offer, answer or ice-candidate from a connection is
\* delivered to another connection, the two are the host and the peer of one
\* room of the registry.
C18_RelayConfinedToRoom ==
    [][\A c \in Conns :
         IsRelay(last', c)
         => \A i \in 1..Len(log') :
              log'[i].to # c
              => \E k \in DOMAIN rooms :
                   {c, log'[i].to} = {rooms[k].host, rooms[k].peer}]_vars

\* C19: every room of the registry has a host whose close has not been
\* handled, so the registry is empty once the close of every accepted
\* connection has been handled.
C19_NoLeakedRoom ==
    /\ \A k \in DOMAIN rooms : ws[rooms[k].host].readyState # "CLOSED"
    /\ (\A c \in Conns : ws[c].readyState \in {"NONE", "CLOSED"})
         => DOMAIN rooms = {}

\* C20: the host and the peer of every room of the registry are different
\* connections.
C20_HostIsNotPeer ==
    \A k \in DOMAIN rooms : rooms[k].host # rooms[k].peer

====
